---- MODULE Spec2Model ----
(***************************************************************************)
(* A model of the four pandoc filters of gpappasunb/pandoc-filters:        *)
(*   adoc-admonitions.py, super-links.py, beamer-twocol.py and             *)
(*   divs-to-latex.py.                                                     *)
(*                                                                         *)
(* Each filter is a separate program: panflute's run_filter walks the      *)
(* document and calls the filter's action(elem, doc) once per node.  A     *)
(* filter's state is its module globals, the document (format, metadata)   *)
(* and, for the purposes of verification, the node handed to the last      *)
(* call of action and what that call returned or raised.                   *)
(*                                                                         *)
(* Python strings are sequences of one-character strings, so that split,   *)
(* removeprefix, endswith and quote_plus are computed, not assumed.        *)
(***************************************************************************)
EXTENDS Integers, Sequences, FiniteSets, TLC

VARIABLES
    \* ---- adoc-admonitions.py
    admDoc,       \* doc: [format, meta] (meta = the 'adoc-admonition' table)
    admGlobals,   \* the names defined in module globals besides the static ones
    admElem,      \* the node given to the last call of action
    admRet,       \* what that call returned (None, Div, list) or raised
    admVisits,    \* number of calls of action so far
    \* ---- super-links.py
    lnkDoc,       \* doc: [meta] (meta = the 'super-links' table)
    lnkGlobals,   \* module globals: [hasMETA, LINKS]
    lnkElem,      \* the node given to the last call of action, as left by it
    lnkArg,       \* the same node as it was when the call started (history)
    lnkSeen,      \* doc.meta as it was at the last call of action (history)
    lnkRet,       \* what that call returned
    lnkVisits,    \* number of calls of action so far
    lnkFirst,     \* doc.meta as it was at the first Span visit (history)
    \* ---- beamer-twocol.py
    colDoc,       \* doc: [format]
    colElem,      \* the node given to the last call of action, as left by it
    colArg,       \* the same node as it was when the call started (history)
    colRet,       \* what that call returned or raised
    \* ---- divs-to-latex.py
    divDoc,       \* doc: [format, meta] (meta = the 'div-env' table)
    divSide,      \* the side channel doc.div: None when the attribute is
                  \* absent, else [val, owner] (owner: history, the path of
                  \* the Div whose action assigned it)
    divTree,      \* the document tree, as left by the calls made so far
    divQueue,     \* paths of the nodes run_filter's walk has still to visit
    divPath,      \* path of the node given to the last call of action
    divArg,       \* that node as it was when the call started (history)
    divLog        \* one record per call that reached line 89 (history)

admVars == <<admDoc, admGlobals, admElem, admRet, admVisits>>
lnkVars ==
    <<lnkDoc, lnkGlobals, lnkElem, lnkArg, lnkSeen, lnkRet, lnkVisits, lnkFirst>>
colVars == <<colDoc, colElem, colArg, colRet>>
divVars == <<divDoc, divSide, divTree, divQueue, divPath, divArg, divLog>>
vars == <<admVars, lnkVars, colVars, divVars>>

----------------------------------------------------------------------------
(* Bounds *)

\* a document has at most this many nodes (calls of action in one run of
\* a filter that keeps state between calls)
MaxVisits == 3
\* a Div has at most this many children
MaxChildren == 3
\* an 'align'/'width' value has at most this many comma-separated fields
MaxFields == 3
\* a document given to divs-to-latex.py has at most this many blocks
MaxBlocks == 3

----------------------------------------------------------------------------
(* Python str, as sequences of characters *)

\* str.startswith
StartsWith(s, p) == Len(p) <= Len(s) /\ SubSeq(s, 1, Len(p)) = p

\* str.endswith
EndsWith(s, p) ==
    Len(p) <= Len(s) /\ SubSeq(s, Len(s) - Len(p) + 1, Len(s)) = p

\* str.find, 1-based; 0 when sep does not occur
Find(s, sep) ==
    LET hits == {i \in 1..(Len(s) - Len(sep) + 1) :
                    SubSeq(s, i, i + Len(sep) - 1) = sep}
    IN  IF hits = {} THEN 0 ELSE CHOOSE i \in hits : \A j \in hits : i <= j

\* s.split(sep, 1)[0]
SplitFirst(s, sep) ==
    LET i == Find(s, sep) IN IF i = 0 THEN s ELSE SubSeq(s, 1, i - 1)

\* s.split(sep, 1)[1:] joined, i.e. what follows the first sep (s has one)
AfterFirst(s, sep) ==
    LET i == Find(s, sep) IN SubSeq(s, i + Len(sep), Len(s))

\* str.removeprefix
RemovePrefix(s, p) ==
    IF StartsWith(s, p) THEN SubSeq(s, Len(p) + 1, Len(s)) ELSE s

\* {**defaults, **override}
Merge(defaults, override) ==
    [k \in DOMAIN defaults \cup DOMAIN override |->
        IF k \in DOMAIN override THEN override[k] ELSE defaults[k]]

----------------------------------------------------------------------------
(* panflute nodes *)

None == [tag |-> "None"]
Space == [tag |-> "Space", text |-> <<>>]
Str(t) == [tag |-> "Str", text |-> t]
HorizontalRule == [tag |-> "HorizontalRule", content |-> <<>>]

\* panflute.stringify of a sequence of inlines: an element with a text
\* attribute gives its text, a Space gives " ".
RECURSIVE StringifyInlines(_)
StringifyInlines(inls) ==
    IF inls = <<>> THEN <<>>
    ELSE (IF Head(inls).tag = "Space" THEN <<" ">> ELSE Head(inls).text)
         \o StringifyInlines(Tail(inls))

\* panflute.stringify(elem): the walk visits the children and then the
\* element itself; a Para (a VerticalSpaces element) then adds "\n\n".
Stringify(elem) ==
    StringifyInlines(elem.content)
    \o (IF elem.tag = "Para" THEN <<"\n", "\n">> ELSE <<>>)

Para(inls) == [tag |-> "Para", content |-> inls]
Plain(inls) == [tag |-> "Plain", content |-> inls]
RawBlock(text, format) == [tag |-> "RawBlock", text |-> text, format |-> format]
Raise(exc) == [tag |-> "Raise", exc |-> exc]

----------------------------------------------------------------------------
(* adoc-admonitions.py *)

NOTE == <<"N", "O", "T", "E">>
TIP == <<"T", "I", "P">>
ERROR == <<"E", "R", "R", "O", "R">>
CODE == <<"C", "O", "D", "E">>
WARNING == <<"W", "A", "R", "N", "I", "N", "G">>
QUOTE == <<"Q", "U", "O", "T", "E">>
ColonSpace == <<":", " ">>

\* the built-in table
ADMONITIONS ==
    (NOTE :> "note") @@ (TIP :> "tip") @@ (ERROR :> "error")
    @@ (CODE :> "term") @@ (WARNING :> "warn") @@ (QUOTE :> "quote")

\* lines 112-136, with the local name admonitions bound to a mapping
AdmRewrite(text, admonitions, format) ==
    LET first_word == SplitFirst(text, ColonSpace) IN
    IF first_word \notin DOMAIN admonitions THEN None
    ELSE LET classname == admonitions[first_word]
             newtext == RemovePrefix(text, first_word \o ColonSpace)
         IN  IF format \in {"latex", "beamer"}
             THEN [tag |-> "List",
                   items |-> << RawBlock(<<"\\begin{", classname, "}">>, "tex"),
                                Para(<<Str(newtext)>>),
                                RawBlock(<<"\\end{", classname, "}">>, "tex") >>]
             ELSE [tag |-> "Div", classes |-> <<classname>>,
                   content |-> <<Para(<<Str(newtext)>>)>>]

\* What action(elem, doc) returns or raises.  META and admonitions are
\* locals of action (both are assigned in its body): they are bound only in
\* the call that finds no 'META' in globals().  Reading admonitions in any
\* other call raises UnboundLocalError.
AdmActionRet(elem, doc, globs) ==
    IF elem.tag # "Para" THEN None
    ELSE LET bound == "META" \notin globs
             admonitions == Merge(ADMONITIONS, doc.meta)
             text == Stringify(elem)
         IN  IF Len(text) = 0 THEN None
             ELSE IF ~bound THEN Raise("UnboundLocalError")
             ELSE AdmRewrite(text, admonitions, doc.format)

\* the module globals after the call
AdmActionGlobals(elem, globs) ==
    IF elem.tag = "Para" THEN globs \cup {"META"} ELSE globs

\* the metadata tables a document may carry under 'adoc-admonition'
XXX == <<"x", "x", "x">>
FOO == <<"F", "O", "O">>
AdmMetas ==
    { <<>>,
      (XXX :> "admonitionnote") @@ (TIP :> "TIPADMONITION") }

Formats == {"html", "latex", "beamer"}

\* the paragraphs (and one non-paragraph) a document may hold
AdmLeads == { <<>>, <<" ">> }
AdmWords == { NOTE, TIP, XXX, FOO, <<>> }
AdmSeps == { <<>>, <<":">> }
AdmRests ==
    { <<>>,
      <<Str(<<"h", "i">>)>>,
      <<Space, Str(<<"h", "i">>)>>,
      <<Space, Str(<<"a", ":">>), Space, Str(<<"b">>)>> }
AdmContents ==
    { (IF l \o w \o s = <<>> THEN <<>> ELSE <<Str(l \o w \o s)>>) \o r :
        l \in AdmLeads, w \in AdmWords, s \in AdmSeps, r \in AdmRests }
AdmElems == { Para(c) : c \in AdmContents } \cup { Plain(<<Str(NOTE \o <<":">>), Space, Str(<<"h", "i">>)>>) }

AdmHalted == admRet.tag = "Raise"

AdmInit ==
    /\ admDoc \in [format : Formats, meta : AdmMetas]
    /\ admGlobals = {}
    /\ admElem = None
    /\ admRet = None
    /\ admVisits = 0

\* run_filter's walk calls action on the next node
AdmAction ==
    /\ ~AdmHalted
    /\ admVisits < MaxVisits
    /\ \E elem \in AdmElems :
        /\ admElem' = elem
        /\ admRet' = AdmActionRet(elem, admDoc, admGlobals)
        /\ admGlobals' = AdmActionGlobals(elem, admGlobals)
    /\ admVisits' = admVisits + 1
    /\ UNCHANGED admDoc

----------------------------------------------------------------------------
(* super-links.py *)

(* A metadata or LINKS value is tagged with its Python type:               *)
(*   [type |-> "str",  val |-> characters]                                 *)
(*   [type |-> "dict", val |-> a record with some of url, encode, before,  *)
(*                             after]                                      *)
(*   [type |-> "bool", val |-> TRUE or FALSE], [type |-> "list", ...]      *)
(* In a URL or a decoration, a token of several characters stands for a    *)
(* run of letters, digits, ":" , "." and "/" that does not end in "/" and  *)
(* that no operation looks into.                                           *)
PyStr(t) == [type |-> "str", val |-> t]
PyDict(d) == [type |-> "dict", val |-> d]
PyBool(b) == [type |-> "bool", val |-> b]
PyList(l) == [type |-> "list", val |-> l]

IDNAME == "l"

\* the built-in table
LINKS ==
    ("wiki" :> PyDict([url |-> <<"https://en.wikipedia.org/wiki">>,
                       encode |-> TRUE, before |-> <<>>, after |-> <<>>]))
    @@ ("pubmed" :> PyDict([url |-> <<"https://pubmed.ncbi.nlm.nih.gov", "/">>,
                            before |-> <<"pubmed:">>]))
    @@ ("doi" :> PyDict([url |-> <<"https://doi.org", "/">>,
                         before |-> <<"DOI:">>]))
    @@ ("github" :> PyStr(<<"https://github.com", "/">>))
    @@ ("youtube" :> PyStr(<<"https://www.youtube.com", "/">>))

\* dict.get(key, default)
DictGet(d, key, default) == IF key \in DOMAIN d THEN d[key] ELSE default

\* Python truth value of a dict.get("encode") result; None when absent
Truthy(d, key) == key \in DOMAIN d /\ d[key] = TRUE

\* urllib.parse.quote_plus on one character: letters, digits and "_.-~"
\* are kept, a space becomes "+", anything else is percent-encoded
QuoteChar(c) ==
    CASE c = " " -> <<"+">>
      [] c = "/" -> <<"%", "2", "F">>
      [] c = ":" -> <<"%", "3", "A">>
      [] c = "+" -> <<"%", "2", "B">>
      [] OTHER -> <<c>>

\* urllib.parse.quote_plus
RECURSIVE QuotePlus(_)
QuotePlus(s) ==
    IF s = <<>> THEN <<>> ELSE QuoteChar(Head(s)) \o QuotePlus(Tail(s))

\* panflute.get_option(elem.attributes, "type"), with the ValueError caught at
\* lines 186-192: the attribute when present, else the first class, else ""
LinkType(elem) ==
    IF "type" \in DOMAIN elem.attributes THEN elem.attributes["type"]
    ELSE IF Len(elem.classes) > 0 THEN elem.classes[1]
    ELSE ""

\* get_link_text with the title substituted before the URL is built
get_link_text_TitleInUrl(links, type, elem) ==
    LET url_data == links[type]
        hasTitle == "title" \in DOMAIN elem.attributes
                    /\ elem.attributes["title"] # <<>>
        link_text == IF hasTitle THEN elem.attributes["title"]
                     ELSE Stringify(elem)
    IN  IF url_data.type = "str"
        THEN LET slash == IF EndsWith(url_data.val, <<"/">>) THEN <<>> ELSE <<"/">>
             IN  << link_text, url_data.val \o slash \o link_text >>
        ELSE IF url_data.type = "dict"
        THEN LET d == url_data.val
                 slash == IF EndsWith(d.url, <<"/">>) THEN <<>> ELSE <<"/">>
                 url == IF Truthy(d, "encode")
                        THEN d.url \o slash \o QuotePlus(link_text)
                        ELSE d.url \o slash \o link_text
                 prepend == DictGet(elem.attributes, "before",
                                    DictGet(d, "before", <<>>))
                 append == DictGet(elem.attributes, "after",
                                   DictGet(d, "after", <<>>))
             IN  << prepend \o link_text \o append, url >>
        ELSE << link_text, <<>> >>

\* get_link_text(type, elem): <<link_text, url>>
get_link_text(links, type, elem) ==
    LET link_text == Stringify(elem)
        url_data == links[type]
        hasTitle == "title" \in DOMAIN elem.attributes
                    /\ elem.attributes["title"] # <<>>
        titled == IF hasTitle THEN elem.attributes["title"] ELSE link_text
    IN  IF url_data.type = "str"
        THEN LET slash == IF EndsWith(url_data.val, <<"/">>) THEN <<>> ELSE <<"/">>
             IN  << titled, url_data.val \o slash \o link_text >>
        ELSE IF url_data.type = "dict"
        THEN LET d == url_data.val
                 slash == IF EndsWith(d.url, <<"/">>) THEN <<>> ELSE <<"/">>
                 url == IF Truthy(d, "encode")
                        THEN d.url \o slash \o QuotePlus(link_text)
                        ELSE d.url \o slash \o link_text
                 prepend == DictGet(elem.attributes, "before",
                                    DictGet(d, "before", <<>>))
                 append == DictGet(elem.attributes, "after",
                                   DictGet(d, "after", <<>>))
             IN  << prepend \o titled \o append, url >>
        ELSE << link_text, <<>> >>

Link(inls, url, classes, attributes) ==
    [tag |-> "Link", content |-> inls, url |-> url,
     classes |-> classes, attributes |-> attributes]

\* the merge repeated at every Span visit, 'META' in globals() or not
LnkActionGlobals_EveryVisit(elem, doc, globs) ==
    IF elem.tag = "Span"
    THEN [hasMETA |-> TRUE, LINKS |-> Merge(globs.LINKS, doc.meta)]
    ELSE globs

\* the module globals after the call: the first Span visit merges the
\* metadata table over LINKS and defines META
LnkActionGlobals(elem, doc, globs) ==
    IF elem.tag = "Span" /\ ~globs.hasMETA
    THEN [hasMETA |-> TRUE, LINKS |-> Merge(globs.LINKS, doc.meta)]
    ELSE globs

\* what action(elem, doc) returns
LnkActionRet(elem, doc, globs) ==
    LET links == LnkActionGlobals(elem, doc, globs).LINKS
        type == LinkType(elem)
    IN  IF elem.tag # "Span" THEN None
        ELSE IF elem.identifier # IDNAME THEN None
        ELSE IF type \notin DOMAIN links THEN None
        ELSE LET tu == get_link_text(links, type, elem)
             IN  Link(<<Str(tu[1])>>, tu[2], elem.classes, elem.attributes)

\* the node after the call: a matched Span has its identifier cleared
LnkActionElem(elem, doc, globs) ==
    IF LnkActionRet(elem, doc, globs).tag = "Link"
    THEN [elem EXCEPT !.identifier = ""]
    ELSE elem

\* the tables a document may carry under 'super-links', as get_metadata
\* returns them; 0 is a document without the key (the default {})
LnkMetaIds == {0, 1, 2}
LnkMetaAt(i) ==
    CASE i = 0 -> <<>>
      [] i = 1 ->
            ("foo" :> PyStr(<<"https://hello.co">>))
            @@ ("other" :> PyDict([url |-> <<"HTTP://foo.com", "/">>,
                                   encode |-> TRUE,
                                   before |-> <<"SOMETEXT:">>,
                                   after |-> <<" <--AFTER">>]))
            @@ ("github" :> PyDict([url |-> <<"https://gh.io", "/">>,
                                    encode |-> FALSE, after |-> <<"!">>]))
            @@ ("bad" :> PyBool(TRUE))
      [] OTHER ->
            ("wiki" :> PyDict([url |-> <<"https://w.org">>]))
            @@ ("pubmed" :> PyStr(<<"https://pm.org">>))
            @@ ("bad" :> PyList(<<"https://x.org">>))

\* the Spans (and one non-Span) a document may hold
LnkTriggers ==
    { [classes |-> <<k>>, attributes |-> <<>>] :
        k \in {"wiki", "pubmed", "github", "foo", "other", "bad"} }
    \cup { [classes |-> <<"wiki", "x">>, attributes |-> [type |-> "github"]],
           [classes |-> <<"wiki">>, attributes |-> [type |-> "nokey"]],
           [classes |-> <<>>, attributes |-> <<>>] }
LnkTitles == { <<>>, [title |-> <<>>], [title |-> <<"T">>] }
LnkBefores == { <<>>, [before |-> <<>>], [before |-> <<"B", ":">>] }
LnkAfters == { <<>>, [after |-> <<"A">>] }
LnkContents == { <<Str(<<"a">>), Space, Str(<<"b", "/", "c">>)>> }
Span(identifier, classes, attributes, inls) ==
    [tag |-> "Span", identifier |-> identifier, classes |-> classes,
     attributes |-> attributes, content |-> inls]
LnkElems ==
    { Span("l", g.classes, g.attributes @@ t @@ b @@ a, c) :
        g \in LnkTriggers, t \in LnkTitles, b \in LnkBefores,
        a \in LnkAfters, c \in LnkContents }
    \cup { Span("l", <<"wiki">>, <<>>, <<Str(<<"a", "_", "b">>)>>),
           Span("l", <<"github">>, <<>>, <<>>),
           Span("", <<"wiki">>, <<>>, <<Str(<<"a">>)>>),
           Span("fig", <<"github">>, [title |-> <<"T">>], <<Str(<<"a">>)>>),
           [tag |-> "Str", identifier |-> "", classes |-> <<>>,
            attributes |-> <<>>, content |-> <<>>] }

LnkInit ==
    /\ \E i \in LnkMetaIds : lnkDoc = [meta |-> LnkMetaAt(i)]
    /\ lnkGlobals = [hasMETA |-> FALSE, LINKS |-> LINKS]
    /\ lnkElem = None
    /\ lnkArg = None
    /\ lnkSeen = None
    /\ lnkRet = None
    /\ lnkVisits = 0
    /\ lnkFirst = None

\* run_filter's walk calls action on the next node
LnkAction ==
    /\ lnkVisits < MaxVisits
    /\ \E elem \in LnkElems :
        /\ lnkRet' = LnkActionRet(elem, lnkDoc, lnkGlobals)
        /\ lnkElem' = LnkActionElem(elem, lnkDoc, lnkGlobals)
        /\ lnkArg' = elem
        /\ lnkGlobals' = LnkActionGlobals(elem, lnkDoc, lnkGlobals)
        /\ lnkFirst' = IF elem.tag = "Span" /\ ~lnkGlobals.hasMETA
                       THEN lnkDoc.meta ELSE lnkFirst
    /\ lnkSeen' = lnkDoc.meta
    /\ lnkVisits' = lnkVisits + 1
    /\ UNCHANGED lnkDoc

\* the document's metadata is changed between two visits (by another
\* filter stage or by the host)
LnkMetadataChange ==
    /\ lnkVisits < MaxVisits
    /\ \E i \in LnkMetaIds :
        /\ LnkMetaAt(i) # lnkDoc.meta
        /\ lnkDoc' = [meta |-> LnkMetaAt(i)]
    /\ UNCHANGED <<lnkGlobals, lnkElem, lnkArg, lnkSeen, lnkRet, lnkVisits, lnkFirst>>

----------------------------------------------------------------------------
(* beamer-twocol.py *)

DIVNAME == "twocol"

Div(identifier, classes, attributes, blocks) ==
    [tag |-> "Div", identifier |-> identifier, classes |-> classes,
     attributes |-> attributes, content |-> blocks]

\* str.split(sep, maxsplit): the list of pieces
RECURSIVE Split(_, _, _)
Split(s, sep, maxsplit) ==
    IF maxsplit = 0 \/ Find(s, sep) = 0 THEN <<s>>
    ELSE <<SplitFirst(s, sep)>> \o Split(AfterFirst(s, sep), sep, maxsplit - 1)

\* split_attributes(attr, attr_name, shared_attr): shared_attr updated
split_attributes(attr, attr_name, shared_attr) ==
    LET attrs == Split(attr, <<",">>, 2)
        split_pos == IF Len(attrs) > 1 THEN 1 ELSE 0
    IN  [left |-> Merge(shared_attr.left, attr_name :> attrs[1]),
         right |-> Merge(shared_attr.right, attr_name :> attrs[split_pos + 1])]

\* process_attributes(attributes): the loop over ["align", "width"]
RECURSIVE ProcessLoop(_, _, _)
ProcessLoop(names, attributes, shared_attributes) ==
    IF names = <<>> THEN shared_attributes
    ELSE IF Head(names) \notin DOMAIN attributes
    THEN ProcessLoop(Tail(names), attributes, shared_attributes)
    ELSE ProcessLoop(Tail(names), attributes,
            split_attributes(attributes[Head(names)], Head(names),
                             shared_attributes))

process_attributes(attributes) ==
    ProcessLoop(<<"align", "width">>, attributes,
                [left |-> <<>>, right |-> <<>>])

\* process_attributes' effect on its argument: del attributes[i]
AttributesAfterDel(attributes) ==
    [k \in DOMAIN attributes \ {"align", "width"} |-> attributes[k]]

\* ruler_pos: the positions of the HorizontalRule children (1-based here)
RulerPos(content) ==
    {i \in 1..Len(content) : content[i].tag = "HorizontalRule"}

\* the split with the right column starting at the rule itself
ColSplit_KeepsRule(elem, pos) ==
    LET num_elements == Len(elem.content)
        cols_attributes == process_attributes(elem.attributes)
        attributes == AttributesAfterDel(elem.attributes)
        beforeDiv == Div("", <<"column">>,
                         Merge(attributes, cols_attributes.left),
                         SubSeq(elem.content, 1, pos - 1))
        afterDiv == Div("", <<"column">>,
                        Merge(attributes, cols_attributes.right),
                        SubSeq(elem.content, pos, num_elements))
    IN  Div("", <<"columns">>, <<>>, <<beforeDiv, afterDiv>>)

\* lines 87-116, for a Div with a rule at (1-based) position pos
ColSplit(elem, pos) ==
    LET num_elements == Len(elem.content)
        cols_attributes == process_attributes(elem.attributes)
        attributes == AttributesAfterDel(elem.attributes)
        beforeContent == SubSeq(elem.content, 1, pos - 1)
        beforeDiv == Div("", <<"column">>,
                         Merge(attributes, cols_attributes.left), beforeContent)
        afterContent == SubSeq(elem.content, pos + 1, num_elements)
        afterDiv == Div("", <<"column">>,
                        Merge(attributes, cols_attributes.right), afterContent)
    IN  IF pos - 1 < num_elements
        THEN Div("", <<"columns">>, <<>>, <<beforeDiv, afterDiv>>)
        ELSE Raise("TypeError")

\* What action(elem, doc) returns or raises.  The test of doc.format at
\* lines 69-70 has the body pass: both of its outcomes continue in the same
\* way.
ColActionRet(elem, doc) ==
    LET rest ==
            IF elem.tag # "Div" THEN None
            ELSE IF Len(elem.classes) = 0 THEN Raise("IndexError")
            ELSE IF elem.classes[1] # DIVNAME THEN None
            ELSE LET ruler_pos == RulerPos(elem.content)
                 IN  IF ruler_pos = {} THEN None
                     ELSE ColSplit(elem, CHOOSE i \in ruler_pos :
                                            \A j \in ruler_pos : i <= j)
    IN  IF doc.format # "beamer" THEN rest ELSE rest

\* the node after the call: a matched Div has lost align and width and has
\* its first class replaced
ColActionElem(elem, doc) ==
    IF ColActionRet(elem, doc).tag = "Div"
    THEN [elem EXCEPT !.classes[1] = "columns",
                      !.attributes = AttributesAfterDel(elem.attributes)]
    ELSE elem

\* the Divs (and one non-Div) a document may hold
Letters == <<"a", "b", "c", "d", "e", "f">>
ParaAt(i) == Para(<<Str(<<Letters[i]>>)>>)
ColChildren ==
    UNION { { [i \in 1..n |-> IF i \in R THEN HorizontalRule ELSE ParaAt(i)] :
                R \in SUBSET (1..n) } : n \in 0..MaxChildren }
Fields == <<"top", "center", "bottom", "t", "c">>
RECURSIVE JoinFields(_)
JoinFields(n) ==
    IF n = 0 THEN <<>>
    ELSE IF n = 1 THEN <<Fields[1]>>
    ELSE JoinFields(n - 1) \o <<",", Fields[n]>>
ColAligns == { <<>> } \cup { [align |-> JoinFields(n)] : n \in 1..MaxFields }
ColOthers ==
    { <<>>,
      [width |-> <<"20%", ",", "80%">>],
      [width |-> <<"50%">>, h |-> <<"5">>] }
ColClasses == { <<>>, <<"twocol">>, <<"other", "twocol">> }
ColElems ==
    { Div("", cl, a @@ o, ch) :
        cl \in ColClasses, a \in ColAligns, o \in ColOthers,
        ch \in ColChildren }
    \cup { Div("d", <<"twocol", "onlytextwidth">>, [align |-> <<>>],
               <<ParaAt(1), HorizontalRule>>),
           Para(<<Str(<<"a">>)>>) }

ColHalted == colRet.tag = "Raise"

ColInit ==
    /\ colDoc \in [format : {"html", "beamer"}]
    /\ colElem = None
    /\ colArg = None
    /\ colRet = None

\* run_filter's walk calls action on the next node; no state of this
\* filter lasts from one call to the next
ColAction ==
    /\ ~ColHalted
    /\ \E elem \in ColElems :
        /\ colArg' = elem
        /\ colRet' = ColActionRet(elem, colDoc)
        /\ colElem' = ColActionElem(elem, colDoc)
    /\ UNCHANGED colDoc

----------------------------------------------------------------------------
(* divs-to-latex.py *)

\* panflute.RawInline
RawInline(text, format) == [tag |-> "RawInline", text |-> text, format |-> format]

\* panflute.Note: an inline whose content is a list of blocks (a footnote)
Note(blocks) == [tag |-> "Note", content |-> blocks]

\* panflute.Doc
Doc(blocks) == [tag |-> "Doc", content |-> blocks]

\* the children panflute's walk descends into
Children(node) == IF "content" \in DOMAIN node THEN node.content ELSE <<>>

\* latex(txt), lines 108-114
latex(txt) == RawInline(txt, "tex")

\* the label part, lines 79-81
DivLabel(elem) ==
    IF elem.identifier # "" THEN <<"\\label{", elem.identifier, "}">> ELSE <<>>

\* the title part, lines 83-86
DivTitle(elem) ==
    IF "title" \in DOMAIN elem.attributes
    THEN <<"[", elem.attributes["title"], "]">>
    ELSE <<>>

\* the text of the opening marker, line 134
BeginText(val) == <<"\\begin{", val[1], "}">> \o val[2] \o val[3]

\* the text of the closing marker, line 99
EndText(env) == <<"\\end{", env, "}">>

\* add_before_first_paragraph(elem, doc), lines 117-142: st is [dd, hits],
\* dd the side channel doc.div and hits the history of the insertions made
add_before_first_paragraph(elem, path, st) ==
    IF st.dd = None
    THEN [node |-> elem, st |-> st]
    ELSE IF elem.tag = "Para"
    THEN [node |-> [elem EXCEPT !.content =
                        <<latex(BeginText(st.dd.val))>> \o elem.content],
          st |-> [dd |-> None,
                  hits |-> st.hits \cup
                      {[para |-> path, owner |-> st.dd.owner,
                        text |-> BeginText(st.dd.val)]}]]
    ELSE [node |-> elem, st |-> st]

\* Element.walk(action, doc) of panflute: the children first, in order,
\* each child replaced by what its walk returned, then the element itself
RECURSIVE WalkNode(_, _, _)
RECURSIVE WalkList(_, _, _, _)
WalkNode(node, path, st) ==
    IF "content" \in DOMAIN node
    THEN LET r == WalkList(node.content, path, 1, st)
         IN add_before_first_paragraph(
                [node EXCEPT !.content = r.nodes], path, r.st)
    ELSE add_before_first_paragraph(node, path, st)

WalkList(nodes, path, i, st) ==
    IF i > Len(nodes)
    THEN [nodes |-> <<>>, st |-> st]
    ELSE LET h == WalkNode(nodes[i], path \o <<i>>, st)
             t == WalkList(nodes, path, i + 1, h.st)
         IN [nodes |-> <<h.node>> \o t.nodes, st |-> t.st]

\* the test of lines 55-74: the node is a Div, the 'div-env' table is not
\* empty and the first class of the Div is one of its keys.  (The format
\* test of lines 51-52 has the body 'pass' and decides nothing; META is a
\* local of action, so line 62 fetches the table at every call.)
DivMatches(elem, doc) ==
    /\ elem.tag = "Div"
    /\ DOMAIN doc.meta # {}
    /\ Len(elem.classes) > 0
    /\ elem.classes[1] \in DOMAIN doc.meta

\* line 89: doc.div = (env, title, label)
DivSideSet_KeepsOld(old, new) == IF old = None THEN new ELSE old

DivSideSet(old, new) == new

\* action(elem, doc), lines 43-101, for a Div that matches: the node and the
\* side channel it leaves (the function itself returns None, the Div is
\* changed in place)
DivActionWalk(elem, path, doc, side) ==
    LET env == doc.meta[elem.classes[1]]
        dd == DivSideSet(side, [val |-> <<env, DivTitle(elem), DivLabel(elem)>>,
                                owner |-> path])
        r == WalkNode(elem, path, [dd |-> dd, hits |-> {}])
        after == Plain(<<latex(EndText(env))>>)
    IN [node |-> [r.node EXCEPT !.content = r.node.content \o <<after>>],
        st |-> r.st]

\* the node at a path of child indices
RECURSIVE NodeAt(_, _)
NodeAt(node, path) ==
    IF path = <<>> THEN node
    ELSE NodeAt(node.content[Head(path)], Tail(path))

\* the tree with the node at a path replaced
RECURSIVE ReplaceAt(_, _, _)
ReplaceAt(node, path, new) ==
    IF path = <<>> THEN new
    ELSE [node EXCEPT !.content[Head(path)] =
              ReplaceAt(node.content[Head(path)], Tail(path), new)]

\* the order in which run_filter's walk calls action: children before
\* their parent
RECURSIVE PostOrder(_, _)
RECURSIVE PostOrderList(_, _, _)
PostOrder(node, path) == PostOrderList(Children(node), path, 1) \o <<path>>

PostOrderList(nodes, path, i) ==
    IF i > Len(nodes) THEN <<>>
    ELSE PostOrder(nodes[i], path \o <<i>>) \o PostOrderList(nodes, path, i + 1)

\* the 'div-env' tables of the runs: none (or an empty one), and one that
\* maps two Div classes to LaTeX environments
DivMetas == { <<>>, ("note" :> "notebox") @@ ("tip" :> "tipbox") }

\* the blocks without block children: a paragraph, a paragraph with a
\* footnote, a Plain
DivLeaves ==
    { Para(<<Str(<<"a">>)>>),
      Para(<<Str(<<"a">>), Note(<<Para(<<Str(<<"f">>)>>)>>)>>),
      Plain(<<Str(<<"c">>)>>) }

\* identifier, classes and attributes of the Divs of the documents
DivHeads ==
    { [identifier |-> "", classes |-> <<"note">>, attributes |-> <<>>],
      [identifier |-> "sec", classes |-> <<"tip", "note">>,
       attributes |-> [title |-> "T"]],
      [identifier |-> "", classes |-> <<"aside", "note">>,
       attributes |-> <<>>],
      [identifier |-> "", classes |-> <<>>, attributes |-> <<>>] }

\* the lists of blocks that hold n blocks in all, nested ones counted
RECURSIVE DivForests(_)
RECURSIVE DivTrees(_)
DivTrees(k) ==
    IF k = 1
    THEN DivLeaves \cup
         { Div(h.identifier, h.classes, h.attributes, <<>>) : h \in DivHeads }
    ELSE { Div(h.identifier, h.classes, h.attributes, c) :
               h \in DivHeads, c \in DivForests(k - 1) }

DivForests(n) ==
    IF n = 0 THEN { <<>> }
    ELSE UNION { { <<t>> \o f : t \in DivTrees(k), f \in DivForests(n - k) } :
                     k \in 1..n }

DivDocs == { Doc(c) : c \in UNION { DivForests(n) : n \in 0..MaxBlocks } }

DivInit ==
    /\ divDoc \in [format : Formats, meta : DivMetas]
    /\ divSide = None
    /\ divTree \in DivDocs
    /\ divQueue = PostOrder(divTree, <<>>)
    /\ divPath = <<>>
    /\ divArg = None
    /\ divLog = {}

\* run_filter's walk calls action on the next node
DivAction ==
    /\ divQueue # <<>>
    /\ LET path == Head(divQueue)
           elem == NodeAt(divTree, path)
       IN /\ divPath' = path
          /\ divArg' = elem
          /\ divQueue' = Tail(divQueue)
          /\ IF DivMatches(elem, divDoc)
             THEN LET r == DivActionWalk(elem, path, divDoc, divSide)
                  IN /\ divTree' = ReplaceAt(divTree, path, r.node)
                     /\ divSide' = r.st.dd
                     /\ divLog' = divLog \cup
                            {[by |-> path, arg |-> elem, before |-> divSide,
                              hits |-> r.st.hits]}
             ELSE UNCHANGED <<divTree, divSide, divLog>>
    /\ UNCHANGED divDoc

----------------------------------------------------------------------------
(* Specifications: one per filter program.  In the run of one filter the  *)
(* other filters are not loaded: their variables stay idle.               *)

AdmIdle ==
    /\ admDoc = [format |-> "html", meta |-> <<>>]
    /\ admGlobals = {}
    /\ admElem = None
    /\ admRet = None
    /\ admVisits = 0

LnkIdle ==
    /\ lnkDoc = [meta |-> <<>>]
    /\ lnkGlobals = [hasMETA |-> FALSE, LINKS |-> <<>>]
    /\ lnkElem = None
    /\ lnkArg = None
    /\ lnkSeen = None
    /\ lnkRet = None
    /\ lnkVisits = 0
    /\ lnkFirst = None

ColIdle ==
    /\ colDoc = [format |-> "html"]
    /\ colElem = None
    /\ colArg = None
    /\ colRet = None

DivIdle ==
    /\ divDoc = [format |-> "html", meta |-> <<>>]
    /\ divSide = None
    /\ divTree = None
    /\ divQueue = <<>>
    /\ divPath = <<>>
    /\ divArg = None
    /\ divLog = {}

InitAdmonitions == AdmInit /\ LnkIdle /\ ColIdle /\ DivIdle
NextAdmonitions == AdmAction /\ UNCHANGED <<lnkVars, colVars, divVars>>
SpecAdmonitions == InitAdmonitions /\ [][NextAdmonitions]_vars

InitLinks == LnkInit /\ AdmIdle /\ ColIdle /\ DivIdle
NextLinks ==
    \/ LnkAction /\ UNCHANGED <<admVars, colVars, divVars>>
    \/ LnkMetadataChange /\ UNCHANGED <<admVars, colVars, divVars>>
SpecLinks == InitLinks /\ [][NextLinks]_vars

InitTwocol == ColInit /\ AdmIdle /\ LnkIdle /\ DivIdle
NextTwocol == ColAction /\ UNCHANGED <<admVars, lnkVars, divVars>>
SpecTwocol == InitTwocol /\ [][NextTwocol]_vars

InitDivs == DivInit /\ AdmIdle /\ LnkIdle /\ ColIdle
NextDivs == DivAction /\ UNCHANGED <<admVars, lnkVars, colVars>>
SpecDivs == InitDivs /\ [][NextDivs]_vars

----------------------------------------------------------------------------
(* Properties of adoc-admonitions.py *)

\* the merged admonition mapping of the run
AdmMerged == Merge(ADMONITIONS, admDoc.meta)

\* the last visit was of a Paragraph that holds some text
AdmVisitedText ==
    /\ admVisits >= 1
    /\ admElem.tag = "Para"
    /\ StringifyInlines(admElem.content) # <<>>

\* C1: every visit of a Paragraph with non-empty text, the first and the
\* later ones alike, looks the text up in the mapping merged at the first
\* visit and returns what a first visit of that paragraph would return; no
\* visit fails.
C1_EveryVisitUsesTheMergedMapping ==
    AdmVisitedText
        => admRet = AdmRewrite(Stringify(admElem), AdmMerged, admDoc.format)

\* C3: a Paragraph whose flattened text does not start with "<WORD>: " for
\* any configured WORD is returned unchanged.
C3_NoTriggerIsUnchanged ==
    (AdmVisitedText
     /\ \A w \in DOMAIN AdmMerged :
            ~StartsWith(Stringify(admElem), w \o ColonSpace))
        => admRet = None

----------------------------------------------------------------------------
(* Properties of super-links.py *)

\* the mapping entry the last visit resolved its Span to
LnkEntry == lnkGlobals.LINKS[LinkType(lnkArg)]
LnkMatched ==
    /\ lnkVisits >= 1
    /\ lnkArg.tag = "Span"
    /\ lnkArg.identifier = IDNAME
    /\ LinkType(lnkArg) \in DOMAIN lnkGlobals.LINKS

\* C2: once the first Span has been visited the effective mapping has every
\* key of LINKS and of the metadata table seen by that visit, a key of both
\* carries the metadata entry whole, and the mapping stays what that visit
\* made it whatever becomes of the metadata.
C2_MergedOnceOverrideWins ==
    lnkGlobals.hasMETA =>
        /\ DOMAIN lnkGlobals.LINKS = DOMAIN LINKS \cup DOMAIN lnkFirst
        /\ \A k \in DOMAIN lnkFirst : lnkGlobals.LINKS[k] = lnkFirst[k]
        /\ \A k \in DOMAIN LINKS \ DOMAIN lnkFirst :
                lnkGlobals.LINKS[k] = LINKS[k]

\* a later visit resolved a key of both tables after the metadata changed
C2_Witness ==
    /\ LnkMatched
    /\ lnkRet.tag = "Link"
    /\ lnkSeen # lnkFirst
    /\ LinkType(lnkArg) \in DOMAIN lnkFirst \cap DOMAIN LINKS
    /\ lnkFirst[LinkType(lnkArg)] # LINKS[LinkType(lnkArg)]

\* the target, encode flag and decorations of a string or record entry
SpecTarget(e) == IF e.type = "str" THEN e.val ELSE e.val.url
SpecEncode(e) ==
    e.type = "dict" /\ "encode" \in DOMAIN e.val /\ e.val.encode = TRUE
SpecField(e, name) ==
    IF e.type = "dict" /\ name \in DOMAIN e.val THEN e.val[name] ELSE <<>>

\* attrs[name] if present and non-empty, else fallback
Resolve(attrs, name, fallback) ==
    IF name \in DOMAIN attrs /\ attrs[name] # <<>> THEN attrs[name]
    ELSE fallback

C8_DisplayText ==
    (LnkMatched /\ LnkEntry.type \in {"str", "dict"}) =>
        LET base == StringifyInlines(lnkArg.content)
            T == Resolve(lnkArg.attributes, "title", base)
            B == Resolve(lnkArg.attributes, "before",
                         SpecField(LnkEntry, "before"))
            A == Resolve(lnkArg.attributes, "after",
                         SpecField(LnkEntry, "after"))
        IN  /\ lnkRet.tag = "Link"
            /\ lnkRet.content = <<Str(B \o T \o A)>>

\* C9: a Span that resolves to an entry that is neither a string nor a
\* record is never replaced by a Link: the rule ends in an error.
C9_MalformedEntryFails ==
    (LnkMatched /\ LnkEntry.type \notin {"str", "dict"}) =>
        lnkRet.tag = "Raise"

----------------------------------------------------------------------------
(* Properties of beamer-twocol.py *)

ColFirstRule(content) ==
    CHOOSE i \in RulerPos(content) : \A j \in RulerPos(content) : i <= j

\* action has been called (on colArg)
ColVisited == colArg # None

ColTriggers(elem) ==
    /\ elem.tag = "Div"
    /\ Len(elem.classes) > 0
    /\ elem.classes[1] = DIVNAME
    /\ RulerPos(elem.content) # {}

\* C4 (Column-Split part): when the target format is not beamer the node is
\* returned unchanged, whatever its classes and children.
C4_NotBeamerIsUnchanged ==
    (ColVisited /\ colDoc.format # "beamer" /\ colRet.tag # "Raise")
        => (colRet = None /\ colElem = colArg)

\* C5: a 'twocol' Div with a HorizontalRule becomes a 'columns' Div of two
\* 'column' Divs: the children before the first rule, in order, and the
\* children after it, in order (later rules kept, possibly none at all).
C5_SplitAtFirstRule ==
    (ColVisited /\ ColTriggers(colArg)) =>
        LET i == ColFirstRule(colArg.content)
            n == Len(colArg.content)
        IN  /\ colRet.tag = "Div"
            /\ colRet.classes = <<"columns">>
            /\ Len(colRet.content) = 2
            /\ \A c \in 1..2 : /\ colRet.content[c].tag = "Div"
                               /\ colRet.content[c].classes = <<"column">>
            /\ Len(colRet.content[1].content) = i - 1
            /\ \A j \in 1..(i - 1) :
                    colRet.content[1].content[j] = colArg.content[j]
            /\ Len(colRet.content[2].content) = n - i
            /\ \A j \in 1..(n - i) :
                    colRet.content[2].content[j] = colArg.content[i + j]

\* a split whose right column keeps a later rule
C5_Witness ==
    /\ ColVisited
    /\ ColTriggers(colArg)
    /\ colRet.tag = "Div"
    /\ ColFirstRule(colArg.content) > 1
    /\ \E j \in 1..Len(colRet.content[2].content) :
            colRet.content[2].content[j].tag = "HorizontalRule"

\* C6: align and width are split at their first comma: without a comma both
\* columns get the whole value, with one the left column gets what precedes
\* the first comma and the right column all that follows it; every other
\* attribute is on both columns unchanged.
C6_AttributePairs ==
    (ColVisited /\ ColTriggers(colArg) /\ colRet.tag = "Div") =>
        LET attrs == colArg.attributes
            left == colRet.content[1].attributes
            right == colRet.content[2].attributes
        IN  /\ DOMAIN left = DOMAIN attrs
            /\ DOMAIN right = DOMAIN attrs
            /\ \A k \in DOMAIN attrs :
                IF k \in {"align", "width"} /\ Find(attrs[k], <<",">>) # 0
                THEN /\ left[k] = SplitFirst(attrs[k], <<",">>)
                     /\ right[k] = AfterFirst(attrs[k], <<",">>)
                ELSE left[k] = attrs[k] /\ right[k] = attrs[k]

\* C10: a Div that does not trigger the rule (no class, another first
\* class, or no HorizontalRule child) is returned unchanged, without error,
\* classes, attributes and children as they were.
C10_NoMatchIsUnchanged ==
    (ColVisited /\ colArg.tag = "Div" /\ ~ColTriggers(colArg))
        => (colRet = None /\ colElem = colArg)

----------------------------------------------------------------------------
(* Properties of divs-to-latex.py *)

\* the last call of action was on a Div that matches
DivVisitedMatch == divArg # None /\ DivMatches(divArg, divDoc)

\* the Div of the last call, as that call left it
DivResult == NodeAt(divTree, divPath)

\* the paths of the Paragraphs under a node, in document order: a node
\* before its descendants, siblings from first to last
RECURSIVE ParasOf(_, _)
RECURSIVE ParasOfList(_, _, _)
ParasOf(node, path) ==
    (IF node.tag = "Para" THEN <<path>> ELSE <<>>)
        \o ParasOfList(Children(node), path, 1)

ParasOfList(nodes, path, i) ==
    IF i > Len(nodes) THEN <<>>
    ELSE ParasOf(nodes[i], path \o <<i>>) \o ParasOfList(nodes, path, i + 1)

\* the opening marker of a matched Div: \begin{env}, then [title] if there
\* is a 'title' attribute, then \label{id} if the identifier is not empty
DivOpening(elem, doc) ==
    latex(<<"\\begin{", doc.meta[elem.classes[1]], "}">>
          \o (IF "title" \in DOMAIN elem.attributes
              THEN <<"[", elem.attributes["title"], "]">> ELSE <<>>)
          \o (IF elem.identifier # ""
              THEN <<"\\label{", elem.identifier, "}">> ELSE <<>>))

\* the closing marker of a matched Div: \end{env}
DivClosing(elem, doc) == latex(<<"\\end{", doc.meta[elem.classes[1]], "}">>)

\* the last call put the opening marker of its Div in front of the inlines
\* of the i-th Paragraph (in document order) of that Div
DivOpened(i) ==
    LET old == NodeAt(divArg, ParasOf(divArg, <<>>)[i])
        new == NodeAt(DivResult, ParasOf(DivResult, <<>>)[i])
    IN /\ Len(new.content) = Len(old.content) + 1
       /\ Head(new.content) = DivOpening(divArg, divDoc)

\* the last call appended one block that holds the closing marker
DivClosed ==
    /\ Len(DivResult.content) = Len(divArg.content) + 1
    /\ DivResult.content[Len(DivResult.content)]
           = Plain(<<DivClosing(divArg, divDoc)>>)

\* C11: after the action on a matched Div with at least one Paragraph
\* descendant, the opening marker \begin{env}[title]\label{id} has been put
\* first in exactly one Paragraph, the first Paragraph descendant in
\* document order, and in no other, and the closing marker \end{env} is
\* in a new block that is the last child of the Div.
C11_OpensFirstParagraphAndCloses ==
    (DivVisitedMatch /\ ParasOf(divArg, <<>>) # <<>>)
        => /\ Len(ParasOf(DivResult, <<>>)) = Len(ParasOf(divArg, <<>>))
           /\ DivOpened(1)
           /\ \A i \in 2..Len(ParasOf(divArg, <<>>)) : ~DivOpened(i)
           /\ DivClosed

\* a node that holds a footnote somewhere
RECURSIVE HasNote(_)
HasNote(node) ==
    \/ node.tag = "Note"
    \/ \E i \in 1..Len(Children(node)) : HasNote(Children(node)[i])

\* the same statement for the Divs without footnotes
DivOpensWithoutFootnotes ==
    (DivVisitedMatch /\ ~HasNote(divArg)) => C11_OpensFirstParagraphAndCloses

\* C12: the marker data that a matched Div without a Paragraph descendant
\* leaves in doc.div is never put in any paragraph, whatever is visited
\* later in the run (later and enclosing matched Divs with paragraphs
\* included); every paragraph that receives an opening marker receives the
\* marker of the Div whose action is walking it.
C12_StaleMarkerNeverInjected ==
    \A v \in divLog :
        /\ \A h \in v.hits :
               /\ h.owner = v.by
               /\ h.text = DivOpening(v.arg, divDoc).text
        /\ (ParasOf(v.arg, <<>>) = <<>>)
               => \A w \in divLog : \A h \in w.hits : h.owner # v.by

\* a matched Div without a Paragraph left its data in doc.div, and the
\* action of another matched Div, started with that data still there, has
\* put a marker in a paragraph
C12_Witness ==
    \E v \in divLog, w \in divLog :
        /\ ParasOf(v.arg, <<>>) = <<>>
        /\ w.before # None
        /\ w.before.owner = v.by
        /\ w.by # v.by
        /\ w.hits # {}

====
